---- MODULE Spec2Model ----
(***************************************************************************)
(* A model of the annotation-resolution logic of the PASCAL parts dataset  *)
(* (broden_dataset_utils/pascalseg.py) and of the loss/metric accounting   *)
(* of the multi-head segmentation module (models/models.py).               *)
(*                                                                         *)
(* Names (object names, readable part names) are sequences of words, as    *)
(* str.split() sees them.  A part short name such as 'lwing' or 'engine_2' *)
(* is the record PartName(base, idx): idx = 0 when the name carries no     *)
(* '_%d' suffix.  A Python dict is a TLA+ function on its keys.            *)
(***************************************************************************)
EXTENDS Integers, Sequences, FiniteSets, TLC

VARIABLES
    \* load_part2ind: the parser's locals while it walks the file
    line,             \* the line of part2ind.m the loop body last processed
    nread,            \* how many lines the loop has processed
    declared,         \* the part declaration lines processed so far
    p2i,              \* the parser's locals: result, object_name, ...
    \* PascalSegmentation: the object's fields and what its methods return
    seg,              \* codes, part_object_names, part_names, part_key, ...
    call,             \* the last method called on the object, with its arguments
    ret,              \* what that call returned (or the exception it raised)
    trace             \* what load_parts_segmentation read while it ran

parserVars == <<line, nread, declared, p2i>>

pascalVars == <<seg, call, ret, trace>>

vars == <<line, nread, declared, p2i, seg, call, ret, trace>>

(***************************************************************************)
(* Bounds of the model.                                                    *)
(***************************************************************************)
MaxLines == 4
MaxObject == 2
MaxPartNum == 2
MaxIter == 2
MaxKeys == 3
MaxMasks == 4
MaxBatch == 2
MaxLoss == 2

(***************************************************************************)
(* Generic helpers: dict assignment, sums.                                 *)
(***************************************************************************)
Put(f, k, v) == [x \in (DOMAIN f) \cup {k} |-> IF x = k THEN v ELSE f[x]]

EmptyDict == [x \in {} |-> 0]

\* what a call gives back: the value it returns or the exception it raises
Exception(what) == [exception |-> what]

Return(v) == [value |-> v]

ReturnNone == [value |-> "None"]

IsException(r) == "exception" \in DOMAIN r

(***************************************************************************)
(* part2ind.m, line by line.  Each record is one line as the regular       *)
(* expressions of load_part2ind classify it, with the groups they capture. *)
(***************************************************************************)
PartName(b, i) == [part_name |-> b, idx |-> i]

PartNumber(n) == [part_index |-> n]

NoComment == <<>>

ObjectNameWords == {<<"aeroplane">>, <<"bird">>}

ShortNames == {"lwing", "engine"}

Comments == {NoComment, <<"left", "wing">>, <<"multiple", "engines">>}

HeaderLines == [kind : {"header"}, name : ObjectNameWords]

PartLines ==
    [kind : {"part"}, obj : 1..MaxObject, name : ShortNames,
     num : 1..MaxPartNum, comment : {NoComment, <<"left", "wing">>}]

ForLines == [kind : {"for"}, count : 1..MaxIter]

RangeLines ==
    [kind : {"range"}, obj : 1..MaxObject, name : {"engine"},
     num : {10}, comment : Comments]

SilhouetteLines == [kind : {"silhouette"}]

KeySetLines == [kind : {"keyset"}, obj : 1..MaxObject]

MapLines == [kind : {"map"}, obj : 1..MaxObject]

OtherLines == [kind : {"ignored", "unrecognized"}]

Lines ==
    HeaderLines \cup PartLines \cup ForLines \cup RangeLines
        \cup SilhouetteLines \cup KeySetLines \cup MapLines \cup OtherLines

NoLine == [kind |-> "none"]

(***************************************************************************)
(* load_part2ind.  The locals object_name, object_index, iteration_count   *)
(* and object_to_copy are unbound until a line assigns them; reading an    *)
(* unbound local raises UnboundLocalError, and an unrecognized line ends   *)
(* the process with sys.exit(1).                                           *)
(***************************************************************************)
P2iStart ==
    [status |-> "ok", result |-> EmptyDict, bound |-> {},
     object_name |-> <<>>, object_index |-> 0,
     iteration_count |-> 0, object_to_copy |-> 0]

ParserIdle ==
    /\ line = NoLine
    /\ nread = 0
    /\ declared = {}
    /\ p2i = P2iStart

Raise(st, what) == [st EXCEPT !.status = what]

\* readable_name = m.group(4) or part_name
ReadableOfPart(l) == IF l.comment # NoComment THEN l.comment ELSE <<l.name>>

\* readable_name = part_name, unless group 4 is there without 'multiple'
ReadableOfRange(l) ==
    IF l.comment # NoComment /\ (\A i \in DOMAIN l.comment : l.comment[i] # "multiple")
    THEN l.comment ELSE <<l.name>>

PartLineKey_ByNumber(l) == <<l.obj, PartNumber(l.num)>>

\* the key of a part declaration: (object_index, part_name)
PartLineKey(l) == <<l.obj, PartName(l.name, 0)>>

RECURSIVE PutRange(_, _, _, _)
\* for part_index in range(1, 1 + iteration_count): result[...] = ...
PutRange(res, l, v, n) ==
    IF n = 0 THEN res
    ELSE Put(PutRange(res, l, v, n - 1), <<l.obj, PartName(l.name, n)>>, v)

\* the copy loop over list(result.items()), a snapshot of result
CopyObject(res, from, to, oname) ==
    [k \in (DOMAIN res) \cup {<<to, kk[2]>> : kk \in {x \in DOMAIN res : x[1] = from}} |->
        IF k[1] = to /\ <<from, k[2]>> \in DOMAIN res
        THEN <<oname, res[<<from, k[2]>>][2]>>
        ELSE res[k]]

ParseLine(st, l) ==
    CASE l.kind = "header" ->
            [st EXCEPT !.object_name = l.name, !.bound = @ \cup {"object_name"}]
      [] l.kind = "part" ->
            IF "object_name" \notin st.bound
            THEN Raise([st EXCEPT !.object_index = l.obj,
                                  !.bound = @ \cup {"object_index"}],
                       "UnboundLocalError")
            ELSE [st EXCEPT
                    !.object_index = l.obj, !.bound = @ \cup {"object_index"},
                    !.result = Put(@, PartLineKey(l), <<st.object_name, ReadableOfPart(l)>>)]
      [] l.kind = "for" ->
            [st EXCEPT !.iteration_count = l.count, !.bound = @ \cup {"iteration_count"}]
      [] l.kind = "range" ->
            IF "iteration_count" \notin st.bound
                \/ ("object_name" \notin st.bound /\ st.iteration_count > 0)
            THEN Raise([st EXCEPT !.object_index = l.obj,
                                  !.bound = @ \cup {"object_index"}],
                       "UnboundLocalError")
            ELSE [st EXCEPT
                    !.object_index = l.obj, !.bound = @ \cup {"object_index"},
                    !.result = PutRange(@, l, <<st.object_name, ReadableOfRange(l)>>,
                                        st.iteration_count)]
      [] l.kind = "silhouette" ->
            IF "object_index" \notin st.bound \/ "object_name" \notin st.bound
            THEN Raise(st, "UnboundLocalError")
            ELSE [st EXCEPT
                    !.object_index = @ + 1,
                    !.result = Put(@, <<st.object_index + 1, PartName("silhouette", 0)>>,
                                   <<st.object_name, <<"silhouette">>>>)]
      [] l.kind = "keyset" ->
            [st EXCEPT !.object_to_copy = l.obj, !.bound = @ \cup {"object_to_copy"}]
      [] l.kind = "map" ->
            IF st.result # EmptyDict
                /\ ("object_to_copy" \notin st.bound \/
                    ("object_name" \notin st.bound
                        /\ \E k \in DOMAIN st.result : k[1] = st.object_to_copy))
            THEN Raise([st EXCEPT !.object_index = l.obj,
                                  !.bound = @ \cup {"object_index"}],
                       "UnboundLocalError")
            ELSE [st EXCEPT
                    !.object_index = l.obj, !.bound = @ \cup {"object_index"},
                    !.result = CopyObject(@, st.object_to_copy, l.obj, st.object_name)]
      [] l.kind = "ignored" -> st
      [] OTHER -> Raise(st, "SystemExit")

\* what a line declares: object number, part short name and part number,
\* as part2ind.m assigns them (pimap{obj}(name) = num, or num + ii in a loop)
Declarations(l, count) ==
    CASE l.kind = "part" ->
            {[obj |-> l.obj, part |-> PartName(l.name, 0), num |-> l.num]}
      [] l.kind = "range" ->
            {[obj |-> l.obj, part |-> PartName(l.name, ii), num |-> l.num + ii] :
                ii \in 1..count}
      [] OTHER -> {}

RECURSIVE ParseLines(_, _)
ParseLines(st, ls) ==
    IF ls = <<>> \/ st.status # "ok" THEN st
    ELSE ParseLines(ParseLine(st, Head(ls)), Tail(ls))

\* the map load_part2ind returns for a file (when no line raises)
load_part2ind(ls) == ParseLines(P2iStart, ls)

(***************************************************************************)
(* normalize_part_key.  raw_names maps (object number, part short name)    *)
(* keys to (object name, part name) pairs.  Python lists are 0-based:      *)
(* part_class_names[code] is part_class_names[code + 1] here, and          *)
(* object_class_names is a function on 0..max.                             *)
(***************************************************************************)
Dash == <<"-">>

\* the part short names in the order Python's str comparison gives them
ShortNameOrder == <<"engine", "lwing", "silhouette">>

NameRank(b) == CHOOSE i \in DOMAIN ShortNameOrder : ShortNameOrder[i] = b

\* (c1, p1) < (c2, p2) as Python compares the key tuples
KeyLess(a, b) ==
    \/ a[1] < b[1]
    \/ a[1] = b[1] /\ NameRank(a[2].part_name) < NameRank(b[2].part_name)
    \/ a[1] = b[1] /\ a[2].part_name = b[2].part_name /\ a[2].idx < b[2].idx

RECURSIVE SortedKeys(_)
\* sorted(list(raw_names.keys()))
SortedKeys(ks) ==
    IF ks = {} THEN <<>>
    ELSE LET m == CHOOSE k \in ks : \A o \in ks \ {k} : KeyLess(k, o)
         IN <<m>> \o SortedKeys(ks \ {m})

MaxOf(S) == CHOOSE m \in S : \A o \in S : o <= m

\* list.index(x): the (0-based) position of the first element equal to x
IndexOf(names, x) ==
    (CHOOSE i \in DOMAIN names :
        names[i] = x /\ \A j \in DOMAIN names : names[j] = x => i <= j) - 1

AssignCode_NoAlias(alias_key, part_class_names, n) == Len(part_class_names)

AssignCode_OneBased(alias_key, part_class_names, n) ==
    IF n \in DOMAIN alias_key THEN alias_key[n]
    ELSE IF \E i \in DOMAIN part_class_names : part_class_names[i] = n[2]
         THEN IndexOf(part_class_names, n[2]) + 1
         ELSE Len(part_class_names) + 1

\* the part code of a key named n: its alias, the index of its part name, or
\* the next free index
AssignCode(alias_key, part_class_names, n) ==
    IF n \in DOMAIN alias_key THEN alias_key[n]
    ELSE IF \E i \in DOMAIN part_class_names : part_class_names[i] = n[2]
         THEN IndexOf(part_class_names, n[2])
         ELSE Len(part_class_names)

\* the body of the loop over the sorted keys
NpkStep(st, raw_names, k) ==
    LET n == raw_names[k]
        code == AssignCode(st.alias_key, st.part_class_names, n)
        fresh == n \notin DOMAIN st.alias_key
                    /\ ~ \E i \in DOMAIN st.part_class_names : st.part_class_names[i] = n[2]
    IN [object_class_names |-> [st.object_class_names EXCEPT ![k[1]] = n[1]],
        part_class_names |-> IF fresh THEN Append(st.part_class_names, n[2])
                             ELSE st.part_class_names,
        alias_key |-> IF n \in DOMAIN st.alias_key THEN st.alias_key
                      ELSE Put(st.alias_key, n, code),
        part_key |-> Put(st.part_key, k, code)]

RECURSIVE NpkLoop(_, _, _)
NpkLoop(st, raw_names, ks) ==
    IF ks = <<>> THEN st
    ELSE NpkLoop(NpkStep(st, raw_names, Head(ks)), raw_names, Tail(ks))

\* returns object_class_names, part_class_names, part_key
normalize_part_key(raw_names) ==
    LET object_class_count == MaxOf({k[1] : k \in DOMAIN raw_names}) + 1
        start == [object_class_names |-> [c \in 0..(object_class_count - 1) |-> Dash],
                  part_class_names |-> <<Dash>>,
                  alias_key |-> EmptyDict,
                  part_key |-> EmptyDict]
        end == NpkLoop(start, raw_names, SortedKeys(DOMAIN raw_names))
    IN <<end.object_class_names, end.part_class_names, end.part_key>>

(***************************************************************************)
(* The PascalSegmentation object.                                          *)
(***************************************************************************)
NoCall == [op |-> "none"]

NoTrace == [masks_read |-> 0, lookups |-> <<>>, processed |-> <<>>]

\* the fields directory and version (pascalseg.py:18-28), which only
\* filename() reads, are left out
NoSeg ==
    [constructed |-> FALSE, partdir |-> "part", contextdir |-> "context",
     collapse_adjectives |-> "None", codes |-> EmptyDict,
     part_object_names |-> <<>>, part_names |-> <<>>, part_key |-> EmptyDict,
     object_names |-> <<>>, unknown_label |-> 0, has_segs |-> FALSE, segs |-> <<>>]

PascalIdle ==
    /\ seg = NoSeg
    /\ call = NoCall
    /\ ret = ReturnNone
    /\ trace = NoTrace

(***************************************************************************)
(* normalize_readable and normalize_all_readable.  collapse_adjectives is  *)
(* None or a collection of words.                                          *)
(***************************************************************************)
None == [is_none |-> TRUE, words |-> {}]

Words(ws) == [is_none |-> FALSE, words |-> ws]

decoded_names ==
    [w \in {"lfho", "rfho", "lbho", "rbho", "fwheel", "bwheel", "frontside",
            "leftside", "rightside", "backside", "roofside", "leftmirror",
            "rightmirror"} |->
        CASE w = "lfho" -> <<"left", "front", "hoof">>
          [] w = "rfho" -> <<"right", "front", "hoof">>
          [] w = "lbho" -> <<"left", "back", "hoof">>
          [] w = "rbho" -> <<"right", "back", "hoof">>
          [] w = "fwheel" -> <<"front", "wheel">>
          [] w = "bwheel" -> <<"back", "wheel">>
          [] w = "frontside" -> <<"front", "side">>
          [] w = "leftside" -> <<"left", "side">>
          [] w = "rightside" -> <<"right", "side">>
          [] w = "backside" -> <<"back", "side">>
          [] w = "roofside" -> <<"roof", "side">>
          [] w = "leftmirror" -> <<"left", "mirror">>
          [] OTHER -> <<"right", "mirror">>]

\* name.replace('aeroplane', 'airplane'), on the words of this model
ReplaceAeroplane(name) ==
    [i \in DOMAIN name |-> IF name[i] = "aeroplane" THEN "airplane" ELSE name[i]]

normalize_readable(name, collapse_adjectives) ==
    LET decoded == IF Len(name) = 1 /\ name[1] \in DOMAIN decoded_names
                   THEN decoded_names[name[1]] ELSE name
        renamed == ReplaceAeroplane(decoded)
    IN IF collapse_adjectives.is_none THEN renamed
       ELSE SelectSeq(renamed, LAMBDA w : w \notin collapse_adjectives.words)

normalize_all_readable(raw_keys, collapse_adjectives) ==
    [k \in DOMAIN raw_keys |->
        <<normalize_readable(raw_keys[k][1], collapse_adjectives),
          normalize_readable(raw_keys[k][2], collapse_adjectives)>>]

(***************************************************************************)
(* load_context_labels.  The file is its list of (index, name) lines; the  *)
(* list returned is 0-based: object_names[i] is element i + 1 here.        *)
(***************************************************************************)
RECURSIVE AssignLabels(_, _)
\* for i, n in pairs: object_names[i] = n
AssignLabels(object_names, pairs) ==
    IF pairs = <<>> THEN object_names
    ELSE AssignLabels([object_names EXCEPT ![Head(pairs)[1] + 1] = Head(pairs)[2]],
                      Tail(pairs))

load_context_labels_FirstWins(pairs) ==
    LET top == MaxOf({pairs[i][1] : i \in DOMAIN pairs})
    IN AssignLabels([i \in 1..(top + 1) |-> Dash],
                    [k \in DOMAIN pairs |-> pairs[Len(pairs) + 1 - k]])

load_context_labels(pairs) ==
    LET top == MaxOf({pairs[i][1] : i \in DOMAIN pairs})
    IN AssignLabels([i \in 1..(top + 1) |-> Dash], pairs)

(***************************************************************************)
(* PascalSegmentation.__init__.  Its inputs are the two metadata files,    *)
(* the collapse_adjectives argument and the listing of Annotations_Part    *)
(* (the number of .mat files there, or OSError).                           *)
(***************************************************************************)
OSError == -1

PascalSegmentation_init(file, collapse_adjectives, labels, listing) ==
    LET parsed == load_part2ind(file)
        codes == normalize_all_readable(parsed.result, collapse_adjectives)
        npk == normalize_part_key(codes)
        object_names == load_context_labels(labels)
        unknown == <<"unknown">>
    IN IF parsed.status # "ok" THEN Exception(parsed.status)
       ELSE IF codes = EmptyDict \/ labels = <<>> THEN Exception("ValueError")
       ELSE IF ~ \E i \in DOMAIN object_names : object_names[i] = unknown
            THEN Exception("ValueError")
       ELSE [constructed |-> TRUE, partdir |-> "part", contextdir |-> "context",
             collapse_adjectives |-> collapse_adjectives,
             codes |-> codes,
             part_object_names |-> npk[1],
             part_names |-> npk[2],
             part_key |-> npk[3],
             object_names |->
                [object_names EXCEPT ![IndexOf(object_names, unknown) + 1] = Dash],
             unknown_label |-> IndexOf(object_names, unknown),
             has_segs |-> listing # OSError,
             segs |-> IF listing = OSError THEN <<>> ELSE [i \in 1..listing |-> i]]

(***************************************************************************)
(* load_parts_segmentation.  An annotation is the list of its object       *)
(* instances: class_ind, mask (the set of pixels it covers) and parts,     *)
(* each a part_name and a mask.  An array is its shape and its values; the *)
(* integer 0 is the array of shape ().  The dict part_key is passed by     *)
(* reference, so the function is followed with the dict as it leaves it.   *)
(***************************************************************************)
Pixels == {1, 2}

Scalar(v) == [shape |-> <<>>, data |-> v]

Array(f) == [shape |-> <<1, Cardinality(Pixels)>>, data |-> f]

Zeros == [x \in Pixels |-> 0]

PaintMask_KeepFirst(layer, mask, value) ==
    [x \in Pixels |-> IF x \in mask /\ layer[x] = 0 THEN value ELSE layer[x]]

\* layer[mask.astype(bool)] = value
PaintMask(layer, mask, value) ==
    [x \in Pixels |-> IF x \in mask THEN value ELSE layer[x]]

LookupPartKey_SetDefault(part_key, key) ==
    IF key \in DOMAIN part_key
    THEN [found |-> TRUE, code |-> part_key[key], part_key |-> part_key]
    ELSE [found |-> TRUE, code |-> 0, part_key |-> Put(part_key, key, 0)]

\* part_key[(object_ind, part_name)]: a read of the dict, or KeyError
LookupPartKey(part_key, key) ==
    IF key \in DOMAIN part_key
    THEN [found |-> TRUE, code |-> part_key[key], part_key |-> part_key]
    ELSE [found |-> FALSE, code |-> 0, part_key |-> part_key]

RECURSIVE PartsLoop(_, _, _)
\* for i in range(part_count): ...
PartsLoop(st, object_ind, parts) ==
    IF parts = <<>> \/ st.status # "ok" THEN st
    ELSE LET part == Head(parts)
             key == <<object_ind, part.part_name>>
             got == LookupPartKey(st.part_key, key)
             looked == [st EXCEPT !.lookups = Append(@, key), !.part_key = got.part_key]
         IN IF ~ got.found THEN [looked EXCEPT !.status = "KeyError"]
            ELSE PartsLoop(
                    [looked EXCEPT !.part_seg = PaintMask(@, part.mask, got.code),
                                   !.masks_read = @ + 1],
                    object_ind, Tail(parts))

RECURSIVE InstancesLoop(_, _, _)
\* for i in range(instance_count): ...  (the inner loop's i is its own: the
\* outer loop draws its next i from the range)
InstancesLoop(st, objects, i) ==
    IF i >= Len(objects) \/ st.status # "ok" THEN st
    ELSE LET obj == objects[i + 1]
             painted == [st EXCEPT !.object_seg = PaintMask(@, obj.mask, obj.class_ind),
                                   !.masks_read = @ + 1,
                                   !.processed = Append(@, i)]
         IN InstancesLoop(PartsLoop(painted, obj.class_ind, obj.parts), objects, i + 1)

LoadStart(part_key) ==
    [status |-> "ok", object_seg |-> Zeros, part_seg |-> Zeros, part_key |-> part_key,
     masks_read |-> 0, lookups |-> <<>>, processed |-> <<>>]

load_parts_segmentation_NoEarlyReturn(objects, part_key) ==
    IF Len(objects) = 0 THEN [LoadStart(part_key) EXCEPT !.status = "IndexError"]
    ELSE InstancesLoop([LoadStart(part_key) EXCEPT !.masks_read = 1], objects, 0)

\* the run of load_parts_segmentation: status "empty" is the early return
load_parts_segmentation(objects, part_key) ==
    IF Len(objects) = 0 THEN [LoadStart(part_key) EXCEPT !.status = "empty"]
    ELSE InstancesLoop([LoadStart(part_key) EXCEPT !.masks_read = 1], objects, 0)

\* what the run returns
LoadReturn(run) ==
    CASE run.status = "empty" -> Return(<<Scalar(0), Scalar(0)>>)
      [] run.status = "ok" -> Return(<<Array(run.object_seg), Array(run.part_seg)>>)
      [] OTHER -> Exception(run.status)

LoadTrace(run) ==
    [masks_read |-> run.masks_read, lookups |-> run.lookups, processed |-> run.processed]

(***************************************************************************)
(* The annotations read from disk.                                         *)
(***************************************************************************)
Masks == (SUBSET Pixels) \ {{}}

AnnoPartNames == {PartName("lwing", 0), PartName("engine", 1)}

AnnoParts == [part_name : AnnoPartNames, mask : Masks]

AnnoHeads == [class_ind : {1, 2}, mask : Masks]

\* the annotation of the instances heads, whose parts are the elements of
\* parts that owner gives to each, in their order
Annotation(heads, parts, owner) ==
    [i \in DOMAIN heads |->
        [class_ind |-> heads[i].class_ind,
         mask |-> heads[i].mask,
         parts |-> LET mine == SelectSeq([j \in DOMAIN parts |-> j], LAMBDA j : owner[j] = i)
                   IN [n \in DOMAIN mine |-> parts[mine[n]]]]]

Monotone(owner) == \A i, j \in DOMAIN owner : i <= j => owner[i] <= owner[j]

\* the annotations drawn where calls follow one another: at most one
\* instance with at most one part
SmallAnnotations ==
    {<<>>}
        \cup {Annotation(<<h>>, <<>>, <<>>) : h \in AnnoHeads}
        \cup {Annotation(<<h>>, <<part>>, <<1>>) : h \in AnnoHeads, part \in AnnoParts}

LabelMaps == {[x \in Pixels |-> 0], [x \in Pixels |-> x]}

(***************************************************************************)
(* normalize_part_key on every small map of raw names.                     *)
(***************************************************************************)
RawKeys ==
    (1..MaxObject) \X {PartName("engine", 1), PartName("engine", 2), PartName("lwing", 0)}

RawValues == {<<"airplane">>, <<"bird">>} \X {<<"engine">>, <<"wing">>, Dash}

RawNameMaps ==
    UNION {[ks -> RawValues] :
            ks \in {x \in SUBSET RawKeys : x # {} /\ Cardinality(x) <= MaxKeys}}

InitPartKey ==
    /\ ParserIdle
    /\ seg \in {[NoSeg EXCEPT !.codes = raw] : raw \in RawNameMaps}
    /\ call = NoCall
    /\ ret = ReturnNone
    /\ trace = NoTrace

NormalizePartKey ==
    /\ call = NoCall
    /\ LET r == normalize_part_key(seg.codes)
       IN seg' = [seg EXCEPT !.part_object_names = r[1],
                             !.part_names = r[2],
                             !.part_key = r[3]]
    /\ call' = [op |-> "normalize_part_key"]
    /\ ret' = Return(normalize_part_key(seg.codes))
    /\ UNCHANGED <<parserVars, trace>>

NextPartKey == NormalizePartKey

SpecPartKey == InitPartKey /\ [][NextPartKey]_vars

PartKeyDone == call.op = "normalize_part_key"

\* C1: keys of raw_names with the same (object name, part name) pair get the
\* same part code.
C1_DuplicateNamesAliased ==
    PartKeyDone =>
        \A k1, k2 \in DOMAIN seg.codes :
            seg.codes[k1] = seg.codes[k2] => ret.value[3][k1] = ret.value[3][k2]

C1_Witness ==
    /\ PartKeyDone
    /\ \E k1, k2 \in DOMAIN seg.codes :
        /\ k1 # k2
        /\ seg.codes[k1] = seg.codes[k2]
        /\ ret.value[3][k1] = ret.value[3][k2]
        /\ ret.value[3][k1] > 1

\* C2: part_key is defined on exactly the keys of raw_names, and every code
\* is an index into the returned part-name list, where that key's part name
\* stands.
C2_CodesIndexPartNames ==
    PartKeyDone =>
        /\ DOMAIN ret.value[3] = DOMAIN seg.codes
        /\ \A k \in DOMAIN seg.codes :
            /\ 0 <= ret.value[3][k]
            /\ ret.value[3][k] < Len(ret.value[2])
            /\ ret.value[2][ret.value[3][k] + 1] = seg.codes[k][2]

C2_Witness ==
    /\ PartKeyDone
    /\ \E k1, k2 \in DOMAIN seg.codes :
        /\ seg.codes[k1][1] # seg.codes[k2][1]
        /\ seg.codes[k1][2] = seg.codes[k2][2]
        /\ ret.value[3][k1] = ret.value[3][k2]
    /\ \E k \in DOMAIN seg.codes : ret.value[3][k] = 0

(***************************************************************************)
(* The files PascalSegmentation is built from.                             *)
(***************************************************************************)
Header(n) == [kind |-> "header", name |-> n]

Part(o, p, n, c) == [kind |-> "part", obj |-> o, name |-> p, num |-> n, comment |-> c]

Range(o, p, n, c) == [kind |-> "range", obj |-> o, name |-> p, num |-> n, comment |-> c]

Part2indPlanes ==
    <<[kind |-> "ignored"],
      Header(<<"aeroplane">>),
      Part(1, "lwing", 3, <<"left", "wing">>),
      [kind |-> "for", count |-> 2],
      Range(1, "engine", 10, <<"multiple", "engines">>),
      Header(<<"bird">>),
      Part(2, "lwing", 9, <<"left", "wing">>)>>

Part2indCopy ==
    <<Header(<<"aeroplane">>),
      Part(1, "lwing", 3, NoComment),
      Part(1, "engine", 4, NoComment),
      Header(<<"bird">>),
      [kind |-> "keyset", obj |-> 1],
      [kind |-> "map", obj |-> 2],
      Header(<<"boat">>),
      [kind |-> "silhouette"]>>

Part2indBroken == <<Part(1, "lwing", 3, NoComment)>>

Part2indFiles == {Part2indPlanes, Part2indCopy, Part2indBroken}

CollapseChoices == {None, Words({"left", "right", "front", "back"})}

LabelFiles ==
    {<<<<0, <<"unknown">>>>, <<1, <<"aeroplane">>>>, <<2, <<"bird">>>>>>,
     <<<<3, <<"bird">>>>, <<1, <<"unknown">>>>>>}

Listings == {OSError, 1}

(***************************************************************************)
(* The methods of a PascalSegmentation object.                             *)
(***************************************************************************)
InitPascal ==
    /\ ParserIdle
    /\ PascalIdle

Construct ==
    /\ call = NoCall
    /\ \E file \in Part2indFiles, collapse \in CollapseChoices,
          labels \in LabelFiles, listing \in Listings :
        LET r == PascalSegmentation_init(file, collapse, labels, listing)
        IN /\ call' = [op |-> "__init__"]
           /\ IF IsException(r)
              THEN seg' = seg /\ ret' = r
              ELSE seg' = r /\ ret' = ReturnNone
    /\ UNCHANGED <<parserVars, trace>>

\* all_names(category, j): a Python list index, negative j not drawn
all_names(self, category, j) ==
    CASE category = "object" ->
            IF j < Len(self.object_names) THEN Return(<<self.object_names[j + 1]>>)
            ELSE Exception("IndexError")
      [] category = "part" ->
            IF j < Len(self.part_names) THEN Return(<<self.part_names[j + 1]>>)
            ELSE Exception("IndexError")
      [] OTHER -> Exception("ValueError")

AllNames ==
    /\ seg.constructed
    /\ \E category \in {"object", "part", "material"}, j \in 0..MaxKeys :
        /\ call' = [op |-> "all_names", category |-> category, j |-> j]
        /\ ret' = all_names(seg, category, j)
    /\ UNCHANGED <<parserVars, seg, trace>>

\* metadata(i): the tuple holds the dict self.part_key itself
metadata(self, i) ==
    IF ~ self.has_segs THEN Exception("AttributeError")
    ELSE IF i >= Len(self.segs) THEN Exception("IndexError")
    ELSE Return(<<self.partdir, self.contextdir, self.part_key, self.segs[i + 1]>>)

Metadata ==
    /\ seg.constructed
    /\ \E i \in 0..1 :
        /\ call' = [op |-> "metadata", i |-> i]
        /\ ret' = metadata(seg, i)
    /\ UNCHANGED <<parserVars, seg, trace>>

wants(what, option) == option.is_none \/ what \in option.words

CategoryChoices == {None, Words({"part"}), Words({"object"}), Words({})}

\* resolve_segmentation(m, categories), m the metadata of a segmentation,
\* objects and label_map what the two .mat files of that segmentation hold
resolve_segmentation(m, categories, objects, label_map) ==
    LET run == load_parts_segmentation(objects, m[3])
        parts == LoadReturn(run)
        with_part == IF wants("part", categories)
                     THEN Put(EmptyDict, "part", parts.value[2]) ELSE EmptyDict
        result == IF wants("object", categories)
                  THEN Put(with_part, "object", Array(label_map)) ELSE with_part
        \* arrs in the dict's order, 'part' first
        shape == IF "part" \in DOMAIN result /\ Len(result["part"].shape) >= 2
                 THEN result["part"].shape
                 ELSE IF "object" \in DOMAIN result THEN result["object"].shape
                 ELSE <<1, 1>>
    IN IF wants("part", categories) /\ IsException(parts)
       THEN [value |-> parts, run |-> run]
       ELSE [value |-> Return(<<result, shape>>),
             run |-> IF wants("part", categories) THEN run ELSE LoadStart(m[3])]

ResolveSegmentation ==
    /\ seg.constructed
    /\ seg.has_segs
    /\ \E i \in 0..(Len(seg.segs) - 1), categories \in CategoryChoices,
          objects \in SmallAnnotations, label_map \in LabelMaps :
        LET r == resolve_segmentation(metadata(seg, i).value, categories, objects, label_map)
        IN /\ call' = [op |-> "resolve_segmentation", categories |-> categories,
                       objects |-> objects]
           /\ ret' = r.value
           /\ trace' = LoadTrace(r.run)
           /\ seg' = [seg EXCEPT !.part_key = r.run.part_key]
    /\ UNCHANGED parserVars

LoadPartsSegmentation(objects) ==
    /\ seg.constructed
    /\ LET run == load_parts_segmentation(objects, seg.part_key)
       IN /\ call' = [op |-> "load_parts_segmentation", objects |-> objects]
          /\ ret' = LoadReturn(run)
          /\ trace' = LoadTrace(run)
          /\ seg' = [seg EXCEPT !.part_key = run.part_key]
    /\ UNCHANGED parserVars

LoadSmall == \E objects \in SmallAnnotations : LoadPartsSegmentation(objects)

NextPascal ==
    \/ Construct
    \/ AllNames
    \/ Metadata
    \/ ResolveSegmentation
    \/ LoadSmall

SpecPascal == InitPascal /\ [][NextPascal]_vars

\* C4: once __init__ has built the object, no call of all_names, metadata,
\* resolve_segmentation or load_parts_segmentation changes part_key,
\* part_names or codes.
C4_LookupTableStatic ==
    [][seg.constructed =>
        /\ seg'.part_key = seg.part_key
        /\ seg'.part_names = seg.part_names
        /\ seg'.codes = seg.codes]_vars

C4_Witness ==
    /\ seg.constructed
    /\ call.op = "resolve_segmentation"
    /\ ~ IsException(ret)
    /\ "part" \in DOMAIN ret.value[1]
    /\ Len(trace.lookups) > 0

(***************************************************************************)
(* load_parts_segmentation on every small annotation, against the part_key *)
(* of the objects built from the files above.                              *)
(***************************************************************************)
InitLoadParts ==
    /\ ParserIdle
    /\ seg \in {PascalSegmentation_init(file, None, labels, 1) :
                    file \in {Part2indPlanes, Part2indCopy},
                    labels \in {<<<<0, <<"unknown">>>>>>}}
    /\ call = NoCall
    /\ ret = ReturnNone
    /\ trace = NoTrace

\* every annotation of at most MaxMasks masks, instance and part masks together
LoadFull ==
    /\ call = NoCall
    /\ \E k \in 0..MaxMasks :
        \E t \in 0..(MaxMasks - k) :
            \E heads \in [1..k -> AnnoHeads], parts \in [1..t -> AnnoParts],
               owner \in [1..t -> 1..k] :
                /\ Monotone(owner)
                /\ LoadPartsSegmentation(Annotation(heads, parts, owner))

NextLoadParts == LoadFull

SpecLoadParts == InitLoadParts /\ [][NextLoadParts]_vars

LoadDone == call.op = "load_parts_segmentation"

\* C5: with no object instance in the annotation, load_parts_segmentation
\* returns (0, 0), reads no mask and looks nothing up in part_key.
C5_EmptyAnnotationReturnsZeros ==
    (LoadDone /\ Len(call.objects) = 0) =>
        /\ ret = Return(<<Scalar(0), Scalar(0)>>)
        /\ trace.masks_read = 0
        /\ trace.lookups = <<>>

C5_Witness ==
    /\ LoadDone
    /\ Len(call.objects) = 0
    /\ ret = Return(<<Scalar(0), Scalar(0)>>)

\* the instances whose mask covers pixel x
Covering(objects, x) == {i \in DOMAIN objects : x \in objects[i].mask}

\* the (instance, part) pairs whose part mask covers pixel x
PartsCovering(objects, x) ==
    {ij \in (DOMAIN objects) \X (1..MaxMasks) :
        /\ ij[2] \in DOMAIN objects[ij[1]].parts
        /\ x \in objects[ij[1]].parts[ij[2]].mask}

\* the last pair, in instance order and then part order
LastPair(S) ==
    CHOOSE ij \in S : \A o \in S : o[1] < ij[1] \/ (o[1] = ij[1] /\ o[2] <= ij[2])

\* C6: every instance is processed once, in index order; a pixel of the
\* object layer holds the class_ind of the last instance covering it, a pixel
\* of the part layer the part code of the last part mask covering it (in
\* instance order, then part order), and a pixel no mask covers holds 0.
C6_LastMaskWins ==
    (LoadDone /\ Len(call.objects) > 0 /\ ~ IsException(ret)) =>
        /\ trace.processed = [i \in 1..Len(call.objects) |-> i - 1]
        /\ \A x \in Pixels :
            /\ ret.value[1].data[x] =
                IF Covering(call.objects, x) = {} THEN 0
                ELSE call.objects[MaxOf(Covering(call.objects, x))].class_ind
            /\ ret.value[2].data[x] =
                IF PartsCovering(call.objects, x) = {} THEN 0
                ELSE LET ij == LastPair(PartsCovering(call.objects, x))
                     IN seg.part_key[<<call.objects[ij[1]].class_ind,
                                       call.objects[ij[1]].parts[ij[2]].part_name>>]

C6_Witness ==
    /\ LoadDone
    /\ ~ IsException(ret)
    /\ Len(call.objects) = 2
    /\ \E x \in Pixels :
        /\ Cardinality(Covering(call.objects, x)) = 2
        /\ call.objects[1].class_ind # call.objects[2].class_ind
        /\ Cardinality(PartsCovering(call.objects, x)) = 2
        /\ ret.value[2].data[x] # 0
    /\ \E x \in Pixels : Covering(call.objects, x) = {} /\ ret.value[1].data[x] = 0

(***************************************************************************)
(* models/models.py.  A tensor of shape [B, ...] is a function on the      *)
(* index pairs <<b, x>>, b the sample and x the position within it; a      *)
(* prediction holds at each index the scores of the classes 0, 1, ...      *)
(* (element c + 1 is class c), and a per-sample mask is a function on      *)
(* 1..B.  A float is the fraction Float(num, den).                         *)
(***************************************************************************)
Float(n, d) == [num |-> n, den |-> d]

NoneValue == [none |-> TRUE]

Some(v) == [none |-> FALSE, v |-> v]

RECURSIVE SumOver(_, _)
\* torch.sum over the entries S of t
SumOver(S, t) ==
    IF S = {} THEN 0
    ELSE LET i == CHOOSE j \in S : TRUE IN t[i] + SumOver(S \ {i}, t)

TensorSum(t) == SumOver(DOMAIN t, t)

\* torch.max(pred, dim=1)[1]: the first class with the greatest score
ArgMax(scores) ==
    (CHOOSE c \in DOMAIN scores :
        /\ \A d \in DOMAIN scores : scores[d] <= scores[c]
        /\ \A d \in DOMAIN scores : scores[d] = scores[c] => c <= d) - 1

Preds(pred) == [i \in DOMAIN pred |-> ArgMax(pred[i])]

\* (label != ignore_index).long()
NotIgnored(label, ignore_index) ==
    [i \in DOMAIN label |-> IF label[i] # ignore_index THEN 1 ELSE 0]

ApplySampleMask_Unmasked(valid, samples_valid_mask) == valid

\* valid *= samples_valid_mask.view(B, 1, ...), when a mask is given
ApplySampleMask(valid, samples_valid_mask) ==
    IF samples_valid_mask.none THEN valid
    ELSE [i \in DOMAIN valid |-> valid[i] * samples_valid_mask.v[i[1]]]

\* valid * (preds == label).long()
CorrectOf(valid, preds, label) ==
    [i \in DOMAIN valid |-> valid[i] * (IF preds[i] = label[i] THEN 1 ELSE 0)]

get_correct_and_valid_pixels(pred, label, ignore_index, samples_valid_mask) ==
    LET preds == Preds(pred)
        valid == ApplySampleMask(NotIgnored(label, ignore_index), samples_valid_mask)
        acc_sum == TensorSum(CorrectOf(valid, preds, label))
        pixel_sum == TensorSum(valid)
    IN <<acc_sum, pixel_sum>>

\* the greatest e with 2^e <= n, for n >= 1
RECURSIVE Log2Floor(_)
Log2Floor(n) == IF n < 2 THEN 0 ELSE 1 + Log2Floor(n \div 2)

\* 1e-10 < 2^-33
EpsilonExponent == -33

\* pixel_sum.float() + 1e-10 for a count n >= 1, in float32: the values in
\* [2^e, 2^(e+1)) are 2^(e-23) apart, and an addend below half that spacing
\* is rounded away (were it not, the sum would lie above n: n + 1/8 here)
AddEpsilon(n) ==
    IF EpsilonExponent < Log2Floor(n) - 24 THEN Float(n, 1)
    ELSE Float(n * 8 + 1, 8)

pixel_acc_NoZeroTest(pred, label, ignore_index, samples_valid_mask, missing_score) ==
    LET r == get_correct_and_valid_pixels(pred, label, ignore_index, samples_valid_mask)
    IN [value |-> IF r[2] = 0 THEN Float(0, 1) ELSE Float(r[1], r[2]), divisions |-> 1]

\* pixel_acc: what it returns, and how many divisions it performs
pixel_acc(pred, label, ignore_index, samples_valid_mask, missing_score) ==
    LET preds == Preds(pred)
        valid == ApplySampleMask(NotIgnored(label, ignore_index), samples_valid_mask)
        acc_sum == TensorSum(CorrectOf(valid, preds, label))
        pixel_sum == TensorSum(valid)
        den == AddEpsilon(pixel_sum)
    IN IF pixel_sum = 0 THEN [value |-> missing_score, divisions |-> 0]
       ELSE [value |-> Float(acc_sum * den.den, den.num), divisions |-> 1]

(***************************************************************************)
(* The batches the metric functions are called on: segmentation labels     *)
(* with ignore_index 0 over the pixels of each sample, and scene labels    *)
(* with ignore_index -1, one per sample.                                   *)
(***************************************************************************)
ScoreVectors == {<<1, 0>>, <<0, 1>>, <<1, 1>>}

Layouts == {[ignore_index |-> 0, positions |-> Pixels],
            [ignore_index |-> -1, positions |-> {1}]}

Index(B, layout) == (1..B) \X layout.positions

LabelValues(layout) == {layout.ignore_index, 0, 1}

SampleMasks(B) == {NoneValue} \cup {Some(m) : m \in [1..B -> {0, 1}]}

MissingScores == {Float(1, 1), NoneValue}

MetricIdle ==
    /\ ParserIdle
    /\ PascalIdle

GetCorrectAndValidPixels ==
    /\ call = NoCall
    /\ \E B \in 1..MaxBatch, layout \in Layouts :
        \E pred \in [Index(B, layout) -> ScoreVectors],
           label \in [Index(B, layout) -> LabelValues(layout)],
           samples_valid_mask \in SampleMasks(B) :
            /\ call' = [op |-> "get_correct_and_valid_pixels", pred |-> pred,
                        label |-> label, ignore_index |-> layout.ignore_index,
                        samples_valid_mask |-> samples_valid_mask]
            /\ ret' = Return(get_correct_and_valid_pixels(
                                pred, label, layout.ignore_index, samples_valid_mask))
    /\ UNCHANGED <<parserVars, seg, trace>>

NextCorrectValid == GetCorrectAndValidPixels

SpecCorrectValid == MetricIdle /\ [][NextCorrectValid]_vars

\* the pixels that count: not ignore_index, in a sample whose mask entry is 1
\* (every sample, when no mask is given)
ValidPixels(c) ==
    {i \in DOMAIN c.label :
        /\ c.label[i] # c.ignore_index
        /\ (c.samples_valid_mask.none \/ c.samples_valid_mask.v[i[1]] = 1)}

CorrectPixels(c) == {i \in ValidPixels(c) : ArgMax(c.pred[i]) = c.label[i]}

\* C7: get_correct_and_valid_pixels counts as valid exactly the pixels that
\* are not ignore_index and lie in a sample whose mask entry is 1, and as
\* correct exactly the valid pixels whose arg-max prediction is the label.
C7_MaskedCounts ==
    call.op = "get_correct_and_valid_pixels" =>
        /\ ret.value[2] = Cardinality(ValidPixels(call))
        /\ ret.value[1] = Cardinality(CorrectPixels(call))

C7_Witness ==
    /\ call.op = "get_correct_and_valid_pixels"
    /\ ~ call.samples_valid_mask.none
    /\ ret.value[1] = 1
    /\ ret.value[2] = 2
    /\ \E i \in DOMAIN call.label :
        /\ call.samples_valid_mask.v[i[1]] = 0
        /\ call.label[i] # call.ignore_index
        /\ ArgMax(call.pred[i]) = call.label[i]

PixelAcc ==
    /\ call = NoCall
    /\ \E B \in 1..MaxBatch, layout \in Layouts :
        \E pred \in [Index(B, layout) -> ScoreVectors],
           label \in [Index(B, layout) -> LabelValues(layout)],
           samples_valid_mask \in SampleMasks(B),
           missing_score \in MissingScores :
            LET r == pixel_acc(pred, label, layout.ignore_index,
                               samples_valid_mask, missing_score)
            IN /\ call' = [op |-> "pixel_acc", pred |-> pred, label |-> label,
                           ignore_index |-> layout.ignore_index,
                           samples_valid_mask |-> samples_valid_mask,
                           missing_score |-> missing_score]
               /\ ret' = Return(r.value)
               /\ trace' = [divisions |-> r.divisions]
    /\ UNCHANGED <<parserVars, seg>>

NextPixelAcc == PixelAcc

SpecPixelAcc == MetricIdle /\ [][NextPixelAcc]_vars

\* C8: pixel_acc returns missing_score, dividing nothing, when no pixel is
\* valid, and correct / valid otherwise.
C8_MissingScoreWhenNoValidPixel ==
    call.op = "pixel_acc" =>
        IF ValidPixels(call) = {}
        THEN ret.value = call.missing_score /\ trace.divisions = 0
        ELSE /\ "num" \in DOMAIN ret.value
             /\ ret.value.num * Cardinality(ValidPixels(call))
                    = Cardinality(CorrectPixels(call)) * ret.value.den

C8_Witness ==
    /\ call.op = "pixel_acc"
    /\ ~ call.samples_valid_mask.none
    /\ ValidPixels(call) = {}
    /\ \E i \in DOMAIN call.label : call.label[i] # call.ignore_index
    /\ ret.value = call.missing_score

(***************************************************************************)
(* CrossEntropyLossWithValidationMask.  nn.CrossEntropyLoss is torch's:    *)
(* with reduction='none' it gives, at each position, 0 where the target is *)
(* ignore_index and the negative log-likelihood of the target class        *)
(* elsewhere.  nll holds those likelihood terms.                           *)
(***************************************************************************)
CrossEntropyNone(nll, target, ignore_index) ==
    [i \in DOMAIN target |-> IF target[i] = ignore_index THEN 0 ELSE nll[i]]

MaskLoss_Unmasked(validation_mask, loss_unreduced) == loss_unreduced

\* validation_mask.view(B, 1, ...) * loss_unreduced
MaskLoss(validation_mask, loss_unreduced) ==
    [i \in DOMAIN loss_unreduced |-> validation_mask[i[1]] * loss_unreduced[i]]

\* torch.mean: the sum over the number of elements
TensorMean(t) == Float(TensorSum(t), Cardinality(DOMAIN t))

CrossEntropyLossWithValidationMask_forward(ignore_index, nll, target, validation_mask) ==
    LET loss_unreduced == CrossEntropyNone(nll, target, ignore_index)
        loss_masked == MaskLoss(validation_mask, loss_unreduced)
    IN [value |-> TensorMean(loss_masked), loss_masked |-> loss_masked]

SegLayout == [ignore_index |-> 0, positions |-> Pixels]

MaskedLoss ==
    /\ call = NoCall
    /\ \E B \in 1..MaxBatch :
        \E nll \in [Index(B, SegLayout) -> 1..MaxLoss],
           target \in [Index(B, SegLayout) -> {0, 1}],
           validation_mask \in [1..B -> {0, 1}] :
            LET r == CrossEntropyLossWithValidationMask_forward(
                        SegLayout.ignore_index, nll, target, validation_mask)
            IN /\ call' = [op |-> "CrossEntropyLossWithValidationMask",
                           ignore_index |-> SegLayout.ignore_index, nll |-> nll,
                           target |-> target, validation_mask |-> validation_mask]
               /\ ret' = Return(r.value)
               /\ trace' = [loss_masked |-> r.loss_masked]
    /\ UNCHANGED <<parserVars, seg>>

NextMaskedLoss == MaskedLoss

SpecMaskedLoss == MetricIdle /\ [][NextMaskedLoss]_vars

\* the loss torch assigns to position i of the call c
PixelLoss(c) ==
    [i \in DOMAIN c.target |-> IF c.target[i] = c.ignore_index THEN 0 ELSE c.nll[i]]

\* C9: a pixel of a sample whose validation_mask entry is 0 contributes 0, and
\* the value returned is the sum of the per-pixel losses of the samples with
\* mask 1, divided by the number of pixels of the whole batch.
C9_MaskedMeanOverAllPixels ==
    call.op = "CrossEntropyLossWithValidationMask" =>
        /\ \A i \in DOMAIN call.target :
            call.validation_mask[i[1]] = 0 => trace.loss_masked[i] = 0
        /\ ret.value =
            Float(SumOver({i \in DOMAIN call.target : call.validation_mask[i[1]] = 1},
                          PixelLoss(call)),
                  Cardinality(DOMAIN call.target))

C9_Witness ==
    /\ call.op = "CrossEntropyLossWithValidationMask"
    /\ \E b \in DOMAIN call.validation_mask :
        /\ call.validation_mask[b] = 0
        /\ \E x \in Pixels : call.target[<<b, x>>] # call.ignore_index
    /\ \E b \in DOMAIN call.validation_mask : call.validation_mask[b] = 1
    /\ ret.value.num > 0
    /\ ret.value.den = 2 * Cardinality(Pixels)

(***************************************************************************)
(* The decoder.  A prediction tensor is the scores the head convolution    *)
(* produced together with the torch functions applied to them since, in    *)
(* order; None and a value are NoneValue and Some(v).  broden_dataset      *)
(* (imported at models.py:12) gives object_with_part, the labels of the    *)
(* objects that have parts, and object_part, the part names of each.       *)
(***************************************************************************)
Tasks == {"object", "part", "scene", "material"}

Tensor(data, ops) == [data |-> data, ops |-> ops]

\* F.log_softmax, F.softmax, F.interpolate, squeeze applied to t
Apply(op, t) == Tensor(t.data, Append(t.ops, op))

\* t[:, head: head + n_part]
Slice(t, head, n_part) ==
    Tensor([i \in DOMAIN t.data |-> SubSeq(t.data[i], head + 1, head + n_part)], t.ops)

UPerNet_init(use_softmax, fpn_dim) == [use_softmax |-> use_softmax, fpn_dim |-> fpn_dim]

build_decoder(arch, use_softmax) ==
    IF arch = "upernet_lite" THEN Return(UPerNet_init(use_softmax, 256))
    ELSE IF arch = "upernet" THEN Return(UPerNet_init(use_softmax, 512))
    ELSE Exception("Architecture undefined!")

\* the heads that are switched on run; the others stay None
HeadOutputs(net, output_switch) ==
    [k \in DOMAIN output_switch |->
        IF k = "scene"
        THEN IF output_switch.scene THEN Some(net.scene) ELSE NoneValue
        ELSE IF output_switch.object \/ output_switch.part \/ output_switch.material
        THEN IF k = "material"
             THEN IF output_switch.material THEN Some(net.material) ELSE NoneValue
             ELSE IF output_switch.object \/ output_switch.part
             THEN IF output_switch[k] THEN Some(net[k]) ELSE NoneValue
             ELSE NoneValue
        ELSE NoneValue]

Softmax(self, x) == IF self.use_softmax THEN Apply("softmax", x) ELSE x

AdvanceHead_Stuck(head, n_part) == head

\* head += n_part
AdvanceHead(head, n_part) == head + n_part

RECURSIVE InferencePartLoop(_, _, _, _, _, _)
InferencePartLoop(self, dataset, x, idx_part, head, part_pred_list) ==
    IF idx_part > Len(dataset.object_with_part) THEN part_pred_list
    ELSE LET object_label == dataset.object_with_part[idx_part]
             n_part == Len(dataset.object_part[object_label])
             _x == Softmax(self, Apply("interpolate", Slice(x, head, n_part)))
         IN InferencePartLoop(self, dataset, x, idx_part + 1,
                              AdvanceHead(head, n_part), Append(part_pred_list, _x))

RECURSIVE TrainingPartLoop(_, _, _, _, _)
TrainingPartLoop(dataset, part, idx_part, head, part_pred_list) ==
    IF idx_part > Len(dataset.object_with_part) THEN part_pred_list
    ELSE LET object_label == dataset.object_with_part[idx_part]
             n_part == Len(dataset.object_part[object_label])
             x == Apply("log_softmax", Slice(part, head, n_part))
         IN TrainingPartLoop(dataset, part, idx_part + 1,
                             AdvanceHead(head, n_part), Append(part_pred_list, x))

\* the branch taken when use_softmax or a seg_size is given: a head left at
\* None has no squeeze and cannot be interpolated, and F.interpolate needs a size
InferenceOutputs(self, output_dict, seg_size, dataset) ==
    IF output_dict.scene.none THEN Exception("AttributeError")
    ELSE IF output_dict.object.none THEN Exception("AttributeError")
    ELSE IF seg_size.none THEN Exception("ValueError")
    ELSE IF output_dict.material.none \/ output_dict.part.none
    THEN Exception("AttributeError")
    ELSE Return([k \in DOMAIN output_dict |->
        IF k = "scene" THEN Some(Softmax(self, Apply("squeeze", output_dict.scene.v)))
        ELSE IF k \in {"object", "material"}
        THEN Some(Softmax(self, Apply("interpolate", output_dict[k].v)))
        ELSE IF k = "part"
        THEN Some(InferencePartLoop(self, dataset,
                    Apply("interpolate", output_dict.part.v), 1, 0, <<>>))
        ELSE output_dict[k]])

TrainingOutputs(output_dict, dataset) ==
    Return([k \in DOMAIN output_dict |->
        IF output_dict[k].none THEN NoneValue
        ELSE IF k = "scene"
        THEN Some(Apply("squeeze", Apply("log_softmax", output_dict.scene.v)))
        ELSE IF k \in {"object", "material"}
        THEN Some(Apply("log_softmax", output_dict[k].v))
        ELSE IF k = "part"
        THEN Some(TrainingPartLoop(dataset, output_dict.part.v, 1, 0, <<>>))
        ELSE output_dict[k]])

\* UPerNet.forward; net holds what the head convolutions compute from conv_out
UPerNet_forward(self, net, output_switch, seg_size, dataset) ==
    LET output_dict == HeadOutputs(net, output_switch)
    IN IF self.use_softmax \/ ~ seg_size.none
       THEN InferenceOutputs(self, output_dict, seg_size, dataset)
       ELSE TrainingOutputs(output_dict, dataset)

(***************************************************************************)
(* SegmentationModule.  Float arithmetic is exact on fractions; NaN is     *)
(* what torch gives for 0 / 0.  The negative log-likelihood a prediction   *)
(* assigns to a target class is the network's: net.nll stands for it, at   *)
(* every position.  Targets are class indices of the prediction they are   *)
(* scored against, as F.cross_entropy requires.                            *)
(***************************************************************************)
NaN == [nan |-> TRUE]

IsNaN(f) == "nan" \in DOMAIN f

FAdd(a, b) ==
    IF IsNaN(a) \/ IsNaN(b) THEN NaN
    ELSE Float(a.num * b.den + b.num * a.den, a.den * b.den)

FMul_Unscaled(a, b) == a

\* loss_dict[k] * self.loss_scale[k]
FMul(a, b) ==
    IF IsNaN(a) \/ IsNaN(b) THEN NaN ELSE Float(a.num * b.num, a.den * b.den)

SegmentationModule_init(net_dec, loss_scale, test_output_switch, disable_metric_and_loss_calculations) ==
    [decoder |-> net_dec,
     test_output_switch |-> test_output_switch,
     disable_metric_and_loss_calculations |-> disable_metric_and_loss_calculations,
     loss_scale |-> IF loss_scale = NoneValue
                    THEN [object |-> Float(1, 1), part |-> Float(1, 2),
                          scene |-> Float(1, 4), material |-> Float(1, 1)]
                    ELSE loss_scale,
     crit_dict |-> [scene |-> [ignore_index |-> -1],
                    object |-> [ignore_index |-> 0],
                    material |-> [ignore_index |-> 0]]]

\* (gt_seg_object == object_label)
MaskObject(gt_seg_object, object_label) ==
    [i \in DOMAIN gt_seg_object |-> IF gt_seg_object[i] = object_label THEN 1 ELSE 0]

SumValid_AllSamples(t, valid) == SumOver(DOMAIN t, t)

\* torch.sum(t.view(B, -1), dim=1), then torch.sum(... * valid)
SumValid(t, valid) == SumOver(DOMAIN t, [i \in DOMAIN t |-> t[i] * valid[i[1]]])

part_pixel_acc(pred_part, gt_seg_part, gt_seg_object, object_label, valid) ==
    LET mask_object == MaskObject(gt_seg_object, object_label)
        pred == Preds(pred_part)
        acc_sum == [i \in DOMAIN mask_object |->
                        mask_object[i] * (IF pred[i] = gt_seg_part[i] THEN 1 ELSE 0)]
    IN <<SumValid(acc_sum, valid), SumValid(mask_object, valid)>>

part_loss(nll, gt_seg_part, gt_seg_object, object_label, valid) ==
    LET mask_object == MaskObject(gt_seg_object, object_label)
        loss == [i \in DOMAIN mask_object |-> nll * mask_object[i]]
        sum_pixel == SumValid(mask_object, valid)
    IN Float(SumValid(loss, valid), IF sum_pixel < 1 THEN 1 ELSE sum_pixel)

\* nn.CrossEntropyLoss(ignore_index): the mean over the targets not ignored
CrossEntropyLoss_forward(ignore_index, nll, target) ==
    LET kept == {i \in DOMAIN target : target[i] # ignore_index}
    IN IF kept = {} THEN NaN ELSE Float(nll * Cardinality(kept), Cardinality(kept))

\* valid_part[:, idx_part]
Column(valid_part, idx_part) ==
    [b \in {i[1] : i \in DOMAIN valid_part} |-> valid_part[<<b, idx_part>>]]

RECURSIVE PartLossLoop(_, _, _, _, _)
PartLossLoop(nll, feed_dict, dataset, idx_part, loss) ==
    IF idx_part > Len(dataset.object_with_part) THEN loss
    ELSE PartLossLoop(nll, feed_dict, dataset, idx_part + 1,
            FAdd(loss, part_loss(nll, feed_dict.seg_part, feed_dict.seg_object,
                                 dataset.object_with_part[idx_part],
                                 Column(feed_dict.valid_part, idx_part))))

RECURSIVE PartMetricLoop(_, _, _, _, _)
PartMetricLoop(part, feed_dict, dataset, idx_part, sums) ==
    IF idx_part > Len(dataset.object_with_part) THEN sums
    ELSE LET r == part_pixel_acc(part[idx_part].data, feed_dict.seg_part,
                                 feed_dict.seg_object,
                                 dataset.object_with_part[idx_part],
                                 Column(feed_dict.valid_part, idx_part))
         IN PartMetricLoop(part, feed_dict, dataset, idx_part + 1,
                           <<sums[1] + r[1], sums[2] + r[2]>>)

RECURSIVE SumScaled(_, _, _)
\* sum([loss_dict[k] * self.loss_scale[k] for k in loss_dict.keys()])
SumScaled(keys, loss_dict, loss_scale) ==
    IF keys = {} THEN Float(0, 1)
    ELSE LET k == CHOOSE x \in keys : TRUE
         IN FAdd(FMul(loss_dict[k], loss_scale[k]),
                 SumScaled(keys \ {k}, loss_dict, loss_scale))

Counts(r) == [correct |-> r[1], valid |-> r[2]]

LossDict(self, net, pred, feed_dict, dataset) ==
    LET l1 == IF ~ pred.object.none
              THEN Put(EmptyDict, "object",
                       CrossEntropyLossWithValidationMask_forward(
                           self.crit_dict.object.ignore_index,
                           [i \in DOMAIN feed_dict.seg_object |-> net.nll],
                           feed_dict.seg_object, feed_dict.valid_object).value)
              ELSE EmptyDict
        l2 == IF ~ pred.part.none
              THEN Put(l1, "part", PartLossLoop(net.nll, feed_dict, dataset, 1, Float(0, 1)))
              ELSE l1
        l3 == IF ~ pred.scene.none
              THEN Put(l2, "scene",
                       CrossEntropyLoss_forward(self.crit_dict.scene.ignore_index,
                                                net.nll, feed_dict.scene_label))
              ELSE l2
        l4 == IF ~ pred.material.none
              THEN Put(l3, "material",
                       CrossEntropyLossWithValidationMask_forward(
                           self.crit_dict.material.ignore_index,
                           [i \in DOMAIN feed_dict.seg_material |-> net.nll],
                           feed_dict.seg_material, feed_dict.valid_material).value)
              ELSE l3
    IN Put(l4, "total", SumScaled(DOMAIN l4, l4, self.loss_scale))

\* the scene entry is first set to pixel_acc(...) and then overwritten
MetricDict(pred, feed_dict, dataset) ==
    LET m1 == IF ~ pred.object.none
              THEN Put(EmptyDict, "object",
                       Counts(get_correct_and_valid_pixels(
                           pred.object.v.data, feed_dict.seg_object, 0,
                           Some(feed_dict.valid_object))))
              ELSE EmptyDict
        m2 == IF ~ pred.material.none
              THEN Put(m1, "material",
                       Counts(get_correct_and_valid_pixels(
                           pred.material.v.data, feed_dict.seg_material, 0,
                           Some(feed_dict.valid_material))))
              ELSE m1
        m3 == IF ~ pred.part.none
              THEN Put(m2, "part",
                       Counts(PartMetricLoop(pred.part.v, feed_dict, dataset, 1, <<0, 0>>)))
              ELSE m2
    IN IF ~ pred.scene.none
       THEN Put(Put(m3, "scene",
                    pixel_acc(pred.scene.v.data, feed_dict.scene_label, -1,
                              NoneValue, NoneValue).value),
                "scene",
                Counts(get_correct_and_valid_pixels(
                    pred.scene.v.data, feed_dict.scene_label, -1, NoneValue)))
       ELSE m3

\* SegmentationModule.forward; net is what encoder and head convolutions
\* compute from feed_dict['img']
SegmentationModule_forward(self, net, feed_dict, seg_size, dataset) ==
    IF seg_size.none
    THEN LET output_switch == [object |-> TRUE, part |-> TRUE,
                               scene |-> TRUE, material |-> TRUE]
             decoded == UPerNet_forward(self.decoder, net, output_switch,
                                        NoneValue, dataset)
         IN IF IsException(decoded) THEN decoded
            ELSE IF self.disable_metric_and_loss_calculations
            THEN Return([pred |-> decoded.value])
            ELSE Return([pred |-> decoded.value,
                         loss |-> LossDict(self, net, decoded.value, feed_dict, dataset),
                         metric |-> MetricDict(decoded.value, feed_dict, dataset)])
    ELSE LET decoded == UPerNet_forward(self.decoder, net, self.test_output_switch,
                                        seg_size, dataset)
         IN IF IsException(decoded) THEN decoded
            ELSE Return([pred |-> decoded.value])

(***************************************************************************)
(* The module as main() of train.py builds it (the decoder without         *)
(* use_softmax, the module with its default arguments), called on batches  *)
(* in which the first sample carries the labels and validity flags drawn   *)
(* and the other samples are unlabelled.                                   *)
(***************************************************************************)
AllOn == [object |-> TRUE, part |-> TRUE, scene |-> TRUE, material |-> TRUE]

Architectures == {"upernet", "upernet_lite"}

main_segmentation_module(arch_decoder) ==
    SegmentationModule_init(build_decoder(arch_decoder, FALSE).value,
                            NoneValue, AllOn, FALSE)

Injective(f) == \A i, j \in DOMAIN f : f[i] = f[j] => i = j

\* object_part: the part names of the k-th object with parts are 1..n_parts[k]
Dataset(object_with_part, n_parts) ==
    [object_with_part |-> object_with_part,
     object_part |-> [o \in {object_with_part[k] : k \in DOMAIN object_with_part} |->
        LET k == CHOOSE j \in DOMAIN object_with_part : object_with_part[j] = o
        IN [n \in 1..n_parts[k] |-> n]]]

\* nr_classes['part'] (train.py:329-330)
NrPartClasses(dataset) ==
    SumOver(DOMAIN dataset.object_part,
            [o \in DOMAIN dataset.object_part |-> Len(dataset.object_part[o])])

\* scores of n classes, all different, the greatest moving with the position
Scores(n, i) == [c \in 1..n |-> (c - 1 + i[1] + i[2]) % n]

Net(B, dataset, nll) ==
    [scene |-> Tensor([i \in (1..B) \X {1} |-> Scores(2, i)], <<>>),
     object |-> Tensor([i \in Index(B, SegLayout) |-> Scores(MaxObject + 1, i)], <<>>),
     material |-> Tensor([i \in Index(B, SegLayout) |-> Scores(2, i)], <<>>),
     part |-> Tensor([i \in Index(B, SegLayout) |->
                        Scores(NrPartClasses(dataset), i)], <<>>),
     nll |-> nll]

FeedDict(B, dataset, o, p, m, v) ==
    [seg_object |-> [i \in Index(B, SegLayout) |-> IF i[1] = 1 THEN o ELSE 0],
     seg_part |-> [i \in Index(B, SegLayout) |-> IF i[1] = 1 THEN p ELSE 0],
     seg_material |-> [i \in Index(B, SegLayout) |-> IF i[1] = 1 THEN m ELSE 0],
     scene_label |-> [i \in (1..B) \X {1} |-> IF i[1] = 1 /\ v = 1 THEN m ELSE -1],
     valid_object |-> [b \in 1..B |-> IF b = 1 THEN v ELSE 0],
     valid_material |-> [b \in 1..B |-> IF b = 1 THEN v ELSE 0],
     valid_part |-> [i \in (1..B) \X DOMAIN dataset.object_with_part |->
                        IF i[1] = 1 THEN v ELSE 0]]

\* the part labels an object's pixels can carry
PartLabels(dataset, o) ==
    IF o \in DOMAIN dataset.object_part
    THEN {0, Len(dataset.object_part[o]) - 1}
    ELSE {0}

SegSizes == {NoneValue, Some(<<2, 2>>)}

Forward ==
    /\ call = NoCall
    /\ \E arch_decoder \in Architectures, k \in 1..MaxObject, B \in 1..MaxBatch,
          seg_size \in SegSizes, nll \in 1..MaxLoss :
        \E object_with_part \in [1..k -> 1..MaxObject], n_parts \in [1..k -> 1..MaxPartNum],
           o \in 0..MaxObject, m \in {0, 1}, v \in {0, 1} :
            /\ Injective(object_with_part)
            /\ LET dataset == Dataset(object_with_part, n_parts)
                   self == main_segmentation_module(arch_decoder)
                   net == Net(B, dataset, nll)
               IN \E p \in PartLabels(dataset, o) :
                    LET feed_dict == FeedDict(B, dataset, o, p, m, v)
                    IN /\ call' = [op |-> "forward", self |-> self, net |-> net,
                                   feed_dict |-> feed_dict, seg_size |-> seg_size,
                                   dataset |-> dataset]
                       /\ ret' = SegmentationModule_forward(self, net, feed_dict,
                                                            seg_size, dataset)
    /\ UNCHANGED <<parserVars, seg, trace>>

NextForward == Forward

SpecForward == MetricIdle /\ [][NextForward]_vars

RECURSIVE PartsBefore(_, _)
\* the number of parts of the objects before the i-th of object_with_part
PartsBefore(dataset, i) ==
    IF i = 1 THEN 0
    ELSE PartsBefore(dataset, i - 1)
            + Len(dataset.object_part[dataset.object_with_part[i - 1]])

\* C10: a call without seg_size returns predictions for all four tasks: scene,
\* object and material are not None, and part is a list with one entry per
\* element of object_with_part, in that order: entry i holds the part scores
\* of the i-th object, the channels after those of the objects before it.
C10_TrainingPredictsAllTasks ==
    (call.op = "forward" /\ call.seg_size.none) =>
        /\ ~ IsException(ret)
        /\ LET pred == ret.value.pred
               dataset == call.dataset
           IN /\ \A k \in Tasks : ~ pred[k].none
              /\ Len(pred.part.v) = Len(dataset.object_with_part)
              /\ \A i \in 1..Len(dataset.object_with_part) :
                    LET head == PartsBefore(dataset, i)
                        n_part == Len(dataset.object_part[dataset.object_with_part[i]])
                    IN \A j \in DOMAIN call.net.part.data :
                        pred.part.v[i].data[j]
                            = SubSeq(call.net.part.data[j], head + 1, head + n_part)

C10_Witness ==
    /\ call.op = "forward"
    /\ call.seg_size.none
    /\ ~ IsException(ret)
    /\ Len(call.dataset.object_with_part) = 2
    /\ call.dataset.object_with_part[1] > call.dataset.object_with_part[2]
    /\ Len(ret.value.pred.part.v) = 2
    /\ Len(call.dataset.object_part[call.dataset.object_with_part[1]]) = 2
    /\ Len(call.dataset.object_part[call.dataset.object_with_part[2]]) = 1
    /\ ret.value.pred.part.v[1].data # ret.value.pred.part.v[2].data
    /\ "loss" \in DOMAIN ret.value

\* two floats are the same number (or both NaN)
SameFloat(a, b) ==
    IF IsNaN(a) \/ IsNaN(b) THEN IsNaN(a) /\ IsNaN(b)
    ELSE a.num * b.den = b.num * a.den

\* f / n
Fraction(f, n) == IF IsNaN(f) THEN NaN ELSE Float(f.num, f.den * n)

RECURSIVE PartLossOfObjects(_, _)
\* part_loss summed over the first i elements of object_with_part
PartLossOfObjects(c, i) ==
    IF i = 0 THEN Float(0, 1)
    ELSE FAdd(PartLossOfObjects(c, i - 1),
              part_loss(c.net.nll, c.feed_dict.seg_part, c.feed_dict.seg_object,
                        c.dataset.object_with_part[i],
                        [b \in DOMAIN c.feed_dict.valid_object |->
                            c.feed_dict.valid_part[<<b, i>>]]))

TrainingWithLoss ==
    /\ call.op = "forward"
    /\ call.seg_size.none
    /\ ~ call.self.disable_metric_and_loss_calculations

\* C11: in a training call with losses enabled, loss['total'] is
\* 1 * object + 0.5 * part + 0.25 * scene + 1 * material, the four heads and
\* nothing else ('total' is not a term), and loss['part'] is the sum of
\* part_loss over every element of object_with_part.
C11_TotalIsScaledSumOfHeads ==
    TrainingWithLoss =>
        /\ ~ IsException(ret)
        /\ DOMAIN ret.value.loss = Tasks \cup {"total"}
        /\ LET loss == ret.value.loss
               half == Fraction(loss.part, 2)
               quarter == Fraction(loss.scene, 4)
           IN /\ SameFloat(loss.total,
                           FAdd(FAdd(loss.object, half), FAdd(quarter, loss.material)))
              /\ SameFloat(loss.part,
                           PartLossOfObjects(call, Len(call.dataset.object_with_part)))

C11_Witness ==
    /\ TrainingWithLoss
    /\ ~ IsException(ret)
    /\ Len(call.dataset.object_with_part) = 2
    /\ ~ IsNaN(ret.value.loss.total)
    /\ ret.value.loss.part.num > 0
    /\ ret.value.loss.scene.num > 0
    /\ ret.value.loss.object.num > 0
    /\ ret.value.loss.material.num > 0
    /\ ~ SameFloat(ret.value.loss.total,
                   FAdd(FAdd(ret.value.loss.object, ret.value.loss.part),
                        FAdd(ret.value.loss.scene, ret.value.loss.material)))

Adjectives == {"left", "right", "front", "back"}

\* C12: an object constructed without a collapse_adjectives argument (the
\* default, None) has no part name containing the word left, right, front
\* or back.
C12_DefaultRemovesAdjectives ==
    (seg.constructed /\ seg.collapse_adjectives = None) =>
        \A i \in DOMAIN seg.part_names :
            \A j \in DOMAIN seg.part_names[i] : seg.part_names[i][j] \notin Adjectives

\* the default construction that keeps an adjective
C12_Witness ==
    /\ seg.constructed
    /\ seg.collapse_adjectives = None
    /\ \E i \in DOMAIN seg.part_names : seg.part_names[i] = <<"left", "wing">>

(***************************************************************************)
(* load_context_labels on every small file of 'index: name' lines, alone   *)
(* and within __init__ (pascalseg.py:44-47).  A file without a line has no *)
(* maximal index, and one without 'unknown' no unknown label: ValueError.  *)
(***************************************************************************)
LabelNames == {<<"unknown">>, <<"bird">>, <<"boat">>}

LabelLines == (0..MaxIter) \X LabelNames

LoadContextLabels ==
    /\ call = NoCall
    /\ \E n \in 0..MaxKeys :
        \E pairs \in [1..n -> LabelLines] :
            /\ call' = [op |-> "load_context_labels", pairs |-> pairs]
            /\ ret' = IF pairs = <<>> THEN Exception("ValueError")
                      ELSE Return(load_context_labels(pairs))
    /\ UNCHANGED <<parserVars, seg, trace>>

ConstructWithLabels ==
    /\ call = NoCall
    /\ \E n \in 0..MaxKeys :
        \E pairs \in [1..n -> LabelLines] :
            LET r == PascalSegmentation_init(Part2indCopy, None, pairs, OSError)
            IN /\ call' = [op |-> "__init__", pairs |-> pairs]
               /\ IF IsException(r)
                  THEN seg' = seg /\ ret' = r
                  ELSE seg' = r /\ ret' = ReturnNone
    /\ UNCHANGED <<parserVars, trace>>

NextContextLabels ==
    \/ LoadContextLabels
    \/ ConstructWithLabels

SpecContextLabels == InitPascal /\ [][NextContextLabels]_vars

\* the lines of the file that name index i
LinesOf(pairs, i) == {k \in DOMAIN pairs : pairs[k][1] = i}

\* what the file says of index i: the name of its last line, '-' without one
NameOf(pairs, i) ==
    IF LinesOf(pairs, i) = {} THEN Dash ELSE pairs[MaxOf(LinesOf(pairs, i))][2]

Unknowns(pairs) ==
    {i \in 0..MaxOf({pairs[k][1] : k \in DOMAIN pairs}) : NameOf(pairs, i) = <<"unknown">>}

\* C13: load_context_labels returns a list of length max(index) + 1 holding
\* at i the name of the last line 'i: name' and '-' where the file names no
\* such index; the object built from it holds the same list with the entry
\* named 'unknown' (the first such) replaced by '-'.
C13_LabelsIndexedByNumber ==
    /\ (call.op = "load_context_labels" /\ ~ IsException(ret)) =>
        /\ Len(ret.value) = MaxOf({call.pairs[k][1] : k \in DOMAIN call.pairs}) + 1
        /\ \A i \in 0..(Len(ret.value) - 1) : ret.value[i + 1] = NameOf(call.pairs, i)
    /\ (call.op = "__init__" /\ "pairs" \in DOMAIN call /\ seg.constructed) =>
        /\ Len(seg.object_names) = MaxOf({call.pairs[k][1] : k \in DOMAIN call.pairs}) + 1
        /\ Unknowns(call.pairs) # {}
        /\ \A i \in 0..(Len(seg.object_names) - 1) :
            seg.object_names[i + 1] =
                IF i = CHOOSE u \in Unknowns(call.pairs) :
                            \A w \in Unknowns(call.pairs) : u <= w
                THEN Dash ELSE NameOf(call.pairs, i)

C13_Witness ==
    /\ call.op = "__init__"
    /\ "pairs" \in DOMAIN call
    /\ seg.constructed
    /\ Len(call.pairs) = 3
    /\ call.pairs[1][1] = 0
    /\ call.pairs[3][1] = 0
    /\ call.pairs[1][2] # call.pairs[3][2]
    /\ call.pairs[2] = <<MaxIter, <<"unknown">>>>
    /\ seg.object_names[1] = call.pairs[3][2]
    /\ seg.object_names[2] = Dash
    /\ seg.unknown_label = MaxIter
    /\ seg.object_names[MaxIter + 1] = Dash

(***************************************************************************)
(* loadseg.py: AbstractSegmentation.  segmentation_data calls the          *)
(* receiver's own metadata and resolve_segmentation, so it is followed on  *)
(* a PascalSegmentation, on a class that keeps the defaults of the base    *)
(* class (with or without a filename of its own) and on a class whose      *)
(* resolve_segmentation accepts categories and gives the arrays drawn.     *)
(***************************************************************************)
\* an array of 3 dimensions, from its layers
Layers(ls) == [shape |-> <<Len(ls)>> \o ls[1].shape, data |-> ls]

\* data[0]
FirstLayer(data) == data.data[1]

AbstractSegmentation_metadata(has_filename, i) ==
    IF has_filename THEN Return(<<"filename", i>>) ELSE Exception("NotImplementedError")

\* def resolve_segmentation(cls, m): a call that passes a keyword the
\* signature does not have is a TypeError
AbstractSegmentation_resolve_segmentation(m, keywords) ==
    IF keywords \subseteq {"m"} THEN Return(EmptyDict) ELSE Exception("TypeError")

\* segmentation_data from line 39 on, given what line 37 received
SelectCategory(resolved, category, full) ==
    IF IsException(resolved) THEN resolved
    ELSE LET segs == resolved.value[1]
         IN IF category \notin DOMAIN segs THEN Return(Scalar(0))
            ELSE LET data == segs[category]
                 IN IF ~ full /\ Len(data.shape) >= 3 THEN Return(FirstLayer(data))
                    ELSE Return(data)

\* segmentation_data of a class keeping the base resolve_segmentation
AbstractSegmentation_segmentation_data(has_filename, category, i, full) ==
    LET m == AbstractSegmentation_metadata(has_filename, i)
    IN IF IsException(m) THEN m
       ELSE SelectCategory(
                AbstractSegmentation_resolve_segmentation(m.value, {"categories"}),
                category, full)

Categories == {"part", "object", "material"}

DefaultSegmentationData ==
    /\ call.op # "segmentation_data"
    /\ \E has_filename \in BOOLEAN, category \in Categories, i \in 0..1, full \in BOOLEAN :
        LET m == AbstractSegmentation_metadata(has_filename, i)
        IN /\ call' = [op |-> "segmentation_data", class |-> "AbstractSegmentation",
                       has_filename |-> has_filename, category |-> category,
                       i |-> i, full |-> full,
                       resolved |-> IF IsException(m) THEN m
                                    ELSE AbstractSegmentation_resolve_segmentation(
                                            m.value, {"categories"})]
           /\ ret' = AbstractSegmentation_segmentation_data(has_filename, category, i, full)
    /\ UNCHANGED <<parserVars, seg, trace>>

PascalSegmentationData ==
    /\ call.op # "segmentation_data"
    /\ seg.constructed
    /\ \E category \in Categories, i \in 0..1, full \in BOOLEAN,
          objects \in SmallAnnotations, label_map \in LabelMaps :
        LET m == metadata(seg, i)
            r == resolve_segmentation(m.value, Words({category}), objects, label_map)
        IN IF IsException(m)
           THEN /\ call' = [op |-> "segmentation_data", class |-> "PascalSegmentation",
                            has_filename |-> TRUE, category |-> category,
                            i |-> i, full |-> full, resolved |-> m]
                /\ ret' = m
                /\ UNCHANGED <<seg, trace>>
           ELSE /\ call' = [op |-> "segmentation_data", class |-> "PascalSegmentation",
                            has_filename |-> TRUE, category |-> category,
                            i |-> i, full |-> full, resolved |-> r.value]
                /\ ret' = SelectCategory(r.value, category, full)
                /\ trace' = LoadTrace(r.run)
                /\ seg' = [seg EXCEPT !.part_key = r.run.part_key]
    /\ UNCHANGED parserVars

ResolvedArrays ==
    {Scalar(0)} \cup {Array(f) : f \in LabelMaps}
        \cup {Layers(<<Array(f), Array(g)>>) : f, g \in LabelMaps}

OverridingSegmentationData ==
    /\ call.op # "segmentation_data"
    /\ \E category \in Categories, resolves \in SUBSET {"part", "object"},
          data \in ResolvedArrays, i \in 0..1, full \in BOOLEAN :
        LET resolved == Return(<<[c \in resolves |-> data], <<1, 1>>>>)
        IN /\ call' = [op |-> "segmentation_data", class |-> "Overriding",
                       has_filename |-> TRUE, category |-> category,
                       i |-> i, full |-> full, resolved |-> resolved]
           /\ ret' = SelectCategory(resolved, category, full)
    /\ UNCHANGED <<parserVars, seg, trace>>

NextSegmentationData ==
    \/ DefaultSegmentationData
    \/ PascalSegmentationData
    \/ OverridingSegmentationData

SpecSegmentationData == InitLoadParts /\ [][NextSegmentationData]_vars

SameArray(a, b) == a.shape = b.shape /\ a.data = b.data

\* the array segmentation_data is to return, given the segmentations resolved
SelectedArray(c) ==
    LET segs == c.resolved.value[1]
    IN IF c.category \notin DOMAIN segs THEN Scalar(0)
       ELSE IF ~ c.full /\ Len(segs[c.category].shape) >= 3
       THEN segs[c.category].data[1]
       ELSE segs[c.category]

\* C14: segmentation_data works on every class: on one that keeps the base
\* resolve_segmentation, which resolves no category, it returns 0; on the
\* others it returns 0 when the category is not among the segmentations
\* resolved, and otherwise the category's array, or the first layer of it
\* when full is False and the array has 3 or more dimensions.
C14_SegmentationDataWorkingDefault ==
    call.op = "segmentation_data" =>
        IF call.class = "AbstractSegmentation"
        THEN call.has_filename =>
                ~ IsException(ret) /\ SameArray(ret.value, Scalar(0))
        ELSE ~ IsException(call.resolved) =>
                ~ IsException(ret) /\ SameArray(ret.value, SelectedArray(call))

\* the call on a class with the base resolve_segmentation, which raises
C14_Witness ==
    /\ call.op = "segmentation_data"
    /\ call.class = "AbstractSegmentation"
    /\ call.has_filename
    /\ ret = Exception("TypeError")

(***************************************************************************)
(* train.py: main's loop over the epochs, train and checkpoint.  trace     *)
(* holds the position of the run (pc, epoch, i), the events so far and the *)
(* files written.  The module and the batches are those of the forward     *)
(* pass above; what a batch holds does not change the course of the run.   *)
(***************************************************************************)
\* x.mean(): tensors have it, the dicts {'correct': ..., 'valid': ...} do not
Mean(x) == IF "correct" \in DOMAIN x THEN Exception("AttributeError") ELSE Return(x)

\* for name in d.keys(): ave[name].update(d[name].mean().item())
UpdateMeters(d) ==
    IF \E name \in DOMAIN d : IsException(Mean(d[name]))
    THEN Exception("AttributeError") ELSE Return("updated")

\* one iteration of train's loop, up to the update of the meters
TrainStep(segmentation_module, batch_data) ==
    LET forward == SegmentationModule_forward(segmentation_module, batch_data.net,
                        batch_data.feed_dict, NoneValue, batch_data.dataset)
    IN IF IsException(forward) THEN forward
       ELSE IF IsException(Mean(forward.value.loss.total)) THEN Mean(forward.value.loss.total)
       ELSE IF IsException(UpdateMeters(forward.value.loss))
       THEN UpdateMeters(forward.value.loss)
       ELSE UpdateMeters(forward.value.metric)

\* what next(iterator) may give
Batches ==
    {[net |-> Net(1, Dataset(<<1>>, <<1>>), 1),
      feed_dict |-> FeedDict(1, Dataset(<<1>>, <<1>>), 1, 0, 1, v),
      dataset |-> Dataset(<<1>>, <<1>>)] : v \in {0, 1}}

CheckpointFiles(epoch_num) ==
    <<<<"history_epoch", epoch_num>>, <<"encoder_epoch", epoch_num>>,
      <<"decoder_epoch", epoch_num>>>>

MainStart ==
    /\ call = NoCall
    /\ \E start_epoch \in 1..(MaxIter + 1), num_epoch \in 0..MaxIter,
          epoch_iters \in 0..MaxIter, disp_iter \in 1..2, arch_decoder \in Architectures :
        call' = [op |-> "main", start_epoch |-> start_epoch, num_epoch |-> num_epoch,
                 epoch_iters |-> epoch_iters, disp_iter |-> disp_iter,
                 segmentation_module |-> main_segmentation_module(arch_decoder)]
    /\ trace' = [pc |-> "for", epoch |-> call'.start_epoch, i |-> 0,
                 events |-> <<>>, files |-> <<>>, history |-> <<>>]
    /\ UNCHANGED <<parserVars, seg, ret>>

\* for epoch in range(args.start_epoch, args.num_epoch + 1)
ForEpoch ==
    /\ call.op = "main"
    /\ trace.pc = "for"
    /\ IF trace.epoch <= call.num_epoch
       THEN /\ trace' = [trace EXCEPT !.pc = "train", !.i = 0,
                            !.events = Append(@, <<"train", trace.epoch>>)]
            /\ ret' = ret
       ELSE /\ trace' = [trace EXCEPT !.pc = "done"]
            /\ ret' = ReturnNone
    /\ UNCHANGED <<parserVars, seg, call>>

\* one iteration of for i in range(args.epoch_iters)
TrainIteration ==
    /\ call.op = "main"
    /\ trace.pc = "train"
    /\ trace.i < call.epoch_iters
    /\ \E batch_data \in Batches :
        LET step == TrainStep(call.segmentation_module, batch_data)
        IN IF IsException(step)
           THEN /\ trace' = [trace EXCEPT !.pc = "raised"]
                /\ ret' = step
           ELSE /\ trace' = [trace EXCEPT !.i = @ + 1,
                                !.history = IF trace.i % call.disp_iter = 0
                                            THEN Append(@, <<trace.epoch, trace.i>>)
                                            ELSE @]
                /\ ret' = ret
    /\ UNCHANGED <<parserVars, seg, call>>

TrainReturn ==
    /\ call.op = "main"
    /\ trace.pc = "train"
    /\ trace.i >= call.epoch_iters
    /\ trace' = [trace EXCEPT !.pc = "checkpoint",
                    !.events = Append(@, <<"trained", trace.epoch>>)]
    /\ UNCHANGED <<parserVars, seg, call, ret>>

Checkpoint ==
    /\ call.op = "main"
    /\ trace.pc = "checkpoint"
    /\ trace' = [trace EXCEPT !.pc = "for", !.epoch = @ + 1,
                    !.files = @ \o CheckpointFiles(trace.epoch),
                    !.events = Append(@, <<"checkpoint", trace.epoch>>)]
    /\ UNCHANGED <<parserVars, seg, call, ret>>

NextMain ==
    \/ MainStart
    \/ ForEpoch
    \/ TrainIteration
    \/ TrainReturn
    \/ Checkpoint

SpecMain == MetricIdle /\ [][NextMain]_vars

(***************************************************************************)
(* What a run over the epochs start_epoch .. num_epoch is to leave behind. *)
(***************************************************************************)
RECURSIVE EpochEvents(_, _)
EpochEvents(e, num_epoch) ==
    IF e > num_epoch THEN <<>>
    ELSE <<<<"train", e>>, <<"trained", e>>, <<"checkpoint", e>>>> \o EpochEvents(e + 1, num_epoch)

RECURSIVE EpochFiles(_, _)
EpochFiles(e, num_epoch) ==
    IF e > num_epoch THEN <<>> ELSE CheckpointFiles(e) \o EpochFiles(e + 1, num_epoch)

EventsInOrder ==
    /\ Len(trace.events) <= Len(EpochEvents(call.start_epoch, call.num_epoch))
    /\ trace.events = SubSeq(EpochEvents(call.start_epoch, call.num_epoch), 1, Len(trace.events))

RunEnded == trace.pc \in {"done", "raised"}

\* C15: main trains the epochs start_epoch .. num_epoch in increasing order
\* and writes the three checkpoint files of epoch e after train(e) and before
\* train(e + 1); every run ends normally, having written the checkpoints of
\* num_epoch - start_epoch + 1 epochs, none when start_epoch > num_epoch.
C15_CheckpointAfterEveryEpoch ==
    call.op = "main" =>
        /\ EventsInOrder
        /\ RunEnded =>
            /\ trace.pc = "done"
            /\ ret = ReturnNone
            /\ trace.files = EpochFiles(call.start_epoch, call.num_epoch)
            /\ call.start_epoch <= call.num_epoch =>
                 Len(trace.files) = 3 * (call.num_epoch - call.start_epoch + 1)
            /\ call.start_epoch > call.num_epoch => trace.files = <<>>

\* train(start_epoch) raised in its first iteration: no checkpoint was written
C15_Witness ==
    /\ call.op = "main"
    /\ call.start_epoch < call.num_epoch
    /\ call.epoch_iters > 0
    /\ trace.pc = "raised"
    /\ ret = Exception("AttributeError")
    /\ trace.epoch = call.start_epoch
    /\ trace.i = 0
    /\ trace.files = <<>>
    /\ trace.events = <<<<"train", call.start_epoch>>>>

(***************************************************************************)
(* part_pixel_acc and get_correct_and_valid_pixels on batches: the part    *)
(* scores of one object over the pixels of each sample, the part and       *)
(* object labels of the pixels, and one valid flag per sample.             *)
(***************************************************************************)
ObjectLabels == {0, 1, 2}

PartPixelAcc ==
    /\ call = NoCall
    /\ \E B \in 1..MaxBatch :
        \E gt_seg_part \in [(1..B) \X Pixels -> {0, 1}],
           gt_seg_object \in [(1..B) \X Pixels -> ObjectLabels],
           object_label \in ObjectLabels \ {0},
           valid \in [1..B -> {0, 1}] :
            LET pred_part == [i \in (1..B) \X Pixels |-> Scores(2, i)]
            IN /\ call' = [op |-> "part_pixel_acc", pred_part |-> pred_part,
                           gt_seg_part |-> gt_seg_part, gt_seg_object |-> gt_seg_object,
                           object_label |-> object_label, valid |-> valid]
               /\ ret' = Return(part_pixel_acc(pred_part, gt_seg_part, gt_seg_object,
                                               object_label, valid))
    /\ UNCHANGED <<parserVars, seg, trace>>

NextPartPixelAcc ==
    \/ PartPixelAcc
    \/ GetCorrectAndValidPixels

SpecPartPixelAcc == MetricIdle /\ [][NextPartPixelAcc]_vars

\* the pixels of the call's object in the samples whose flag is 1
ObjectPixels ==
    {i \in DOMAIN call.gt_seg_object :
        call.gt_seg_object[i] = call.object_label /\ call.valid[i[1]] = 1}

\* those of them whose predicted part is the labelled part
CorrectObjectPixels ==
    {i \in ObjectPixels : ArgMax(call.pred_part[i]) = call.gt_seg_part[i]}

\* C16: part_pixel_acc counts only the pixels whose ground-truth object is
\* the given label in samples whose valid flag (0 or 1) is 1: valid is their
\* number, correct the number of them predicted right, so 0 <= correct <=
\* valid and both are 0 when there is no such pixel; the counts returned by
\* get_correct_and_valid_pixels satisfy 0 <= correct <= valid as well.
C16_CorrectWithinValid ==
    /\ call.op = "part_pixel_acc" =>
        /\ ret.value[2] = Cardinality(ObjectPixels)
        /\ ret.value[1] = Cardinality(CorrectObjectPixels)
        /\ 0 <= ret.value[1]
        /\ ret.value[1] <= ret.value[2]
        /\ ObjectPixels = {} => ret.value = <<0, 0>>
    /\ call.op = "get_correct_and_valid_pixels" =>
        /\ 0 <= ret.value[1]
        /\ ret.value[1] <= ret.value[2]

\* two samples whose pixels are all of the object: the valid one has a right
\* and a wrong pixel, the right pixel of the other one is not counted
C16_Witness ==
    /\ call.op = "part_pixel_acc"
    /\ DOMAIN call.valid = {1, 2}
    /\ call.valid[1] = 1
    /\ call.valid[2] = 0
    /\ \A i \in DOMAIN call.gt_seg_object : call.gt_seg_object[i] = call.object_label
    /\ ArgMax(call.pred_part[<<2, 1>>]) = call.gt_seg_part[<<2, 1>>]
    /\ ret.value = <<1, 2>>

(***************************************************************************)
(* The parser's loop, one line of the file per step.                       *)
(***************************************************************************)
InitPart2ind ==
    /\ ParserIdle
    /\ PascalIdle

ReadLine ==
    /\ nread < MaxLines
    /\ p2i.status = "ok"
    /\ \E l \in Lines :
        /\ line' = l
        /\ p2i' = ParseLine(p2i, l)
        /\ declared' = IF ParseLine(p2i, l).status = "ok"
                       THEN declared \cup Declarations(l, p2i.iteration_count)
                       ELSE declared
    /\ nread' = nread + 1
    /\ UNCHANGED pascalVars

NextPart2ind == ReadLine

Part2indDone == nread > 0 /\ p2i.status = "ok"

AllPartNames ==
    {PartName(b, i) : b \in ShortNames \cup {"silhouette"}, i \in 0..MaxIter}

AllReadableNames ==
    (Comments \ {NoComment}) \cup {<<b>> : b \in ShortNames \cup {"silhouette"}}

SpecPart2ind == InitPart2ind /\ [][NextPart2ind]_vars

====
